---- MODULE Spec2Model ----
(***************************************************************************)
(* URL shortener backend: the in-memory registry (urlStorage), the three   *)
(* request handlers (createShortUrl, redirectToUrl, getUrlStats), the      *)
(* validators and the optional cleanup of expired entries.                 *)
(*                                                                         *)
(* Strings are sequences of one-character strings, so that trimming,       *)
(* lower-casing, length and character-class tests are computed.  Times are *)
(* milliseconds on the server clock; an ISO-8601 string is modelled by the *)
(* pair <<whole minutes, milliseconds within the minute>>.                 *)
(*                                                                         *)
(* The handlers are `async` functions without a single `await`: on the     *)
(* Node.js event loop each one runs to completion, so one handler is one   *)
(* action.  Concurrency is the set of requests in flight (pending), which  *)
(* the event loop may pick in any order.                                   *)
(*                                                                         *)
(* Five specifications: Spec is the server with a working logging sink,    *)
(* SpecSink the server whose log calls may throw, SpecCalls applies the    *)
(* validators and the handlers' parts once to arguments drawn from bounded *)
(* sets, SpecPage is the form of the frontend's URL shortener page, and    *)
(* SpecBatch the frontend's createMultipleShortUrls call, step by step.    *)
(***************************************************************************)
EXTENDS Integers, Sequences, FiniteSets, Bags, TLC

\* ------------------------------------------------------------ state
VARIABLES
    urlStorage,   \* the Map shortcode -> urlEntry
    now,          \* the server clock, in milliseconds
    sent,         \* number of requests received so far
    pending,      \* the bag of requests in flight
    last,         \* the outcome of the latest operation that completed
    hung,         \* TRUE once generateShortcode loops for ever
    created,      \* shortcode -> the request whose storeUrl put the entry (body, at, raced)
    served,       \* shortcode -> one flag per request answered 302 for the entry, in order
    calls,        \* shortcode -> the clickData of the recordClick calls on the entry, in order
    invoked,      \* the function called directly, with its arguments (none while the server runs)
    returned,     \* what that call returned
    urlEntries,   \* the rows of the form of the URL shortener page
    loading,      \* TRUE while handleSubmit waits for createMultipleShortUrls
    batch,        \* the createMultipleShortUrls call that is running, with its locals
    posts         \* the api.post calls made so far, in order

\* ------------------------------------------------------------ bounds
\* Total number of requests the clients send in one behaviour.
MaxReq == 3
\* Number of requests that may be in flight at the same time.
MaxPending == 2

\* ------------------------------------------------------------ characters
LowerLetters == <<"a","b","c","d","e","f","g","h","i","j","k","l","m",
                  "n","o","p","q","r","s","t","u","v","w","x","y","z">>
UpperLetters == <<"A","B","C","D","E","F","G","H","I","J","K","L","M",
                  "N","O","P","Q","R","S","T","U","V","W","X","Y","Z">>
Digits == {"0","1","2","3","4","5","6","7","8","9"}

Range(s) == {s[i] : i \in DOMAIN s}

Letters == Range(LowerLetters) \cup Range(UpperLetters)
AlphaNumerics == Letters \cup Digits

\* /^[a-zA-Z0-9]+$/
alphanumericRegex(s) ==
    /\ Len(s) > 0
    /\ \A i \in DOMAIN s : s[i] \in AlphaNumerics

\* The lower-case letter of each upper-case letter.
LowerOf == [c \in Range(UpperLetters) |->
              LowerLetters[CHOOSE i \in DOMAIN UpperLetters : UpperLetters[i] = c]]

\* String.prototype.toLowerCase, character by character.
LowerChar(c) == IF c \in DOMAIN LowerOf THEN LowerOf[c] ELSE c

toLowerCase(s) == [i \in DOMAIN s |-> LowerChar(s[i])]

\* The characters String.prototype.trim removes (those the inputs here use).
Whitespace == {" ", "\t", "\n"}

RECURSIVE TrimStart(_)
TrimStart(s) ==
    IF Len(s) > 0 /\ Head(s) \in Whitespace THEN TrimStart(Tail(s)) ELSE s

RECURSIVE TrimEnd(_)
TrimEnd(s) ==
    IF Len(s) > 0 /\ s[Len(s)] \in Whitespace
    THEN TrimEnd(SubSeq(s, 1, Len(s) - 1))
    ELSE s

trim(s) == TrimEnd(TrimStart(s))

\* Index of the first occurrence of character c in s, 0 when there is none.
IndexOf(s, c) ==
    IF c \in Range(s) THEN CHOOSE i \in DOMAIN s : s[i] = c /\ \A j \in 1..(i - 1) : s[j] # c
    ELSE 0

\* Index of the last occurrence of character c in s, 0 when there is none.
LastIndexOf(s, c) ==
    IF c \in Range(s) THEN CHOOSE i \in DOMAIN s : s[i] = c /\ \A j \in (i + 1)..Len(s) : s[j] # c
    ELSE 0

startsWith(s, c) == Len(s) > 0 /\ s[1] = c
endsWith(s, c) == Len(s) > 0 /\ s[Len(s)] = c

\* JavaScript truthiness of a string-or-undefined request field: undefined
\* and "" are both modelled by the empty sequence.
Truthy(s) == Len(s) > 0

\* ------------------------------------------------------------ validators
reservedWords ==
    { <<"a","p","i">>, <<"a","d","m","i","n">>, <<"w","w","w">>,
      <<"s","h","o","r","t","u","r","l","s">>, <<"h","e","a","l","t","h">>,
      <<"s","t","a","t","s">> }

ErrNone == "null"
ErrShortcodeEmpty == "Shortcode cannot be empty"
ErrShortcodeLength == "Shortcode must be between 4 and 10 characters long"
ErrShortcodeChars == "Shortcode can only contain alphanumeric characters (a-z, A-Z, 0-9)"
ErrShortcodeReserved == "Shortcode uses a reserved word. Please choose a different shortcode."

\* Faulty variant: the reserved words are compared without lower-casing.
validateShortcodeCaseSensitive(shortcode) ==
    IF ~Truthy(shortcode) THEN [isValid |-> FALSE, error |-> ErrShortcodeEmpty]
    ELSE IF Len(shortcode) < 4 \/ Len(shortcode) > 10
         THEN [isValid |-> FALSE, error |-> ErrShortcodeLength]
    ELSE IF ~alphanumericRegex(shortcode)
         THEN [isValid |-> FALSE, error |-> ErrShortcodeChars]
    ELSE IF shortcode \in reservedWords
         THEN [isValid |-> FALSE, error |-> ErrShortcodeReserved]
    ELSE [isValid |-> TRUE, error |-> ErrNone]

\* Faulty variant: a shortcode of 10 characters counts as too long.
validateShortcodeNineMost(shortcode) ==
    IF ~Truthy(shortcode) THEN [isValid |-> FALSE, error |-> ErrShortcodeEmpty]
    ELSE IF Len(shortcode) < 4 \/ Len(shortcode) >= 10
         THEN [isValid |-> FALSE, error |-> ErrShortcodeLength]
    ELSE IF ~alphanumericRegex(shortcode)
         THEN [isValid |-> FALSE, error |-> ErrShortcodeChars]
    ELSE IF toLowerCase(shortcode) \in reservedWords
         THEN [isValid |-> FALSE, error |-> ErrShortcodeReserved]
    ELSE [isValid |-> TRUE, error |-> ErrNone]

validateShortcode(shortcode) ==
    IF ~Truthy(shortcode) THEN [isValid |-> FALSE, error |-> ErrShortcodeEmpty]
    ELSE IF Len(shortcode) < 4 \/ Len(shortcode) > 10
         THEN [isValid |-> FALSE, error |-> ErrShortcodeLength]
    ELSE IF ~alphanumericRegex(shortcode)
         THEN [isValid |-> FALSE, error |-> ErrShortcodeChars]
    ELSE IF toLowerCase(shortcode) \in reservedWords
         THEN [isValid |-> FALSE, error |-> ErrShortcodeReserved]
    ELSE [isValid |-> TRUE, error |-> ErrNone]

\* new URL(s), for the inputs of this model: scheme ":" then, for the special
\* schemes, any slashes, the host (lower-cased), an optional ":port" and the
\* path.  ok = FALSE stands for the TypeError the constructor throws.
SpecialSchemes ==
    { <<"h","t","t","p">>, <<"h","t","t","p","s">>, <<"f","t","p">>,
      <<"w","s">>, <<"w","s","s">>, <<"f","i","l","e">> }

SchemeChars == AlphaNumerics \cup {"+", "-", "."}

ForbiddenHostChars == {" ", "#", "/", ":", "<", ">", "?", "@", "[", "\\", "]", "^", "|", "%"}

RECURSIVE SkipSlashes(_)
SkipSlashes(s) ==
    IF Len(s) > 0 /\ Head(s) \in {"/", "\\"} THEN SkipSlashes(Tail(s)) ELSE s

\* The prefix of s before the first character that belongs to stops.
Until(s, stops) ==
    LET hits == {i \in DOMAIN s : s[i] \in stops}
    IN  IF hits = {} THEN s
        ELSE SubSeq(s, 1, (CHOOSE i \in hits : \A j \in hits : i <= j) - 1)

UrlFail == [ok |-> FALSE, protocol |-> <<>>, hostname |-> <<>>]

URL(s) ==
    LET k == IndexOf(s, ":")
    IN  IF k <= 1 THEN UrlFail
        ELSE
        LET scheme == toLowerCase(SubSeq(s, 1, k - 1))
            rest   == SubSeq(s, k + 1, Len(s))
        IN  IF ~(scheme[1] \in Letters /\ \A i \in DOMAIN scheme : scheme[i] \in SchemeChars)
            THEN UrlFail
            ELSE IF scheme \notin SpecialSchemes
            THEN [ok |-> TRUE, protocol |-> scheme \o <<":">>, hostname |-> <<>>]
            ELSE
            LET authority == Until(SkipSlashes(rest), {"/", "\\", "?", "#"})
                host      == Until(authority, {":"})
                port      == SubSeq(authority, Len(host) + 2, Len(authority))
            IN  IF Len(host) = 0 \/ Range(host) \cap ForbiddenHostChars # {}
                   \/ ~(Range(port) \subseteq Digits)
                THEN UrlFail
                ELSE [ok |-> TRUE, protocol |-> scheme \o <<":">>,
                      hostname |-> toLowerCase(host)]

HostnameChars == AlphaNumerics \cup {".", "-"}

\* /^[a-zA-Z0-9.-]+$/
hostnameRegex(h) ==
    /\ Len(h) > 0
    /\ \A i \in DOMAIN h : h[i] \in HostnameChars

AllowedProtocols == { <<"h","t","t","p",":">>, <<"h","t","t","p","s",":">> }

UrlInvalid(msg) == [isValid |-> FALSE, error |-> msg, normalizedUrl |-> <<>>]

\* Faulty variant: the normalized URL is lower-cased.
validateUrlCaseFolded(url) ==
    IF ~Truthy(url) THEN UrlInvalid("URL is required")
    ELSE
    LET trimmedUrl == trim(url)
        urlObj     == URL(trimmedUrl)
    IN  IF " " \in Range(trimmedUrl) THEN UrlInvalid("URL cannot contain spaces")
        ELSE IF ~urlObj.ok THEN UrlInvalid("Invalid URL format")
        ELSE IF urlObj.protocol \notin AllowedProtocols
             THEN UrlInvalid("URL must use http:// or https:// protocol")
        ELSE IF ~Truthy(urlObj.hostname)
             THEN UrlInvalid("URL must have a valid hostname")
        ELSE IF ~hostnameRegex(urlObj.hostname) \/ "." \notin Range(urlObj.hostname)
             THEN UrlInvalid("URL must have a valid domain name")
        ELSE IF \/ startsWith(urlObj.hostname, "-") \/ endsWith(urlObj.hostname, "-")
                \/ startsWith(urlObj.hostname, ".") \/ endsWith(urlObj.hostname, ".")
             THEN UrlInvalid("URL domain name format is invalid")
        ELSE [isValid |-> TRUE, error |-> ErrNone, normalizedUrl |-> toLowerCase(trimmedUrl)]

validateUrl(url) ==
    IF ~Truthy(url) THEN UrlInvalid("URL is required")
    ELSE
    LET trimmedUrl == trim(url)
        urlObj     == URL(trimmedUrl)
    IN  IF " " \in Range(trimmedUrl) THEN UrlInvalid("URL cannot contain spaces")
        ELSE IF ~urlObj.ok THEN UrlInvalid("Invalid URL format")
        ELSE IF urlObj.protocol \notin AllowedProtocols
             THEN UrlInvalid("URL must use http:// or https:// protocol")
        ELSE IF ~Truthy(urlObj.hostname)
             THEN UrlInvalid("URL must have a valid hostname")
        ELSE IF ~hostnameRegex(urlObj.hostname) \/ "." \notin Range(urlObj.hostname)
             THEN UrlInvalid("URL must have a valid domain name")
        ELSE IF \/ startsWith(urlObj.hostname, "-") \/ endsWith(urlObj.hostname, "-")
                \/ startsWith(urlObj.hostname, ".") \/ endsWith(urlObj.hostname, ".")
             THEN UrlInvalid("URL domain name format is invalid")
        ELSE [isValid |-> TRUE, error |-> ErrNone, normalizedUrl |-> trimmedUrl]

\* A validity field of the JSON body: t = "undefined" (absent or null),
\* "int" (a number with an integral value v) or "other" (any other value:
\* a string, a fraction, a boolean...).
Undefined == [t |-> "undefined", v |-> 0]
IntegerValue(n) == [t |-> "int", v |-> n]
NotANumber == [t |-> "other", v |-> 0]
\* A string s, and a number with integral part n and a non-zero fraction.
StringValue(s) == [t |-> "string", v |-> s]
FractionValue(n) == [t |-> "fraction", v |-> n]

DefaultValidity == 30
MinValidity == 1
MaxValidity == 43200

\* Faulty variant: the upper limit itself is refused.
validateValidityBelowMax(validity) ==
    IF validity.t = "undefined"
    THEN [isValid |-> TRUE, error |-> ErrNone, value |-> DefaultValidity]
    ELSE IF validity.t # "int"
    THEN [isValid |-> FALSE, error |-> "Validity must be an integer", value |-> 0]
    ELSE IF validity.v < MinValidity \/ validity.v >= MaxValidity
    THEN [isValid |-> FALSE, error |-> "Validity must be between 1 and 43200 minutes (30 days)",
          value |-> 0]
    ELSE [isValid |-> TRUE, error |-> ErrNone, value |-> validity.v]

validateValidity(validity) ==
    IF validity.t = "undefined"
    THEN [isValid |-> TRUE, error |-> ErrNone, value |-> DefaultValidity]
    ELSE IF validity.t # "int"
    THEN [isValid |-> FALSE, error |-> "Validity must be an integer", value |-> 0]
    ELSE IF validity.v < MinValidity \/ validity.v > MaxValidity
    THEN [isValid |-> FALSE, error |-> "Validity must be between 1 and 43200 minutes (30 days)",
          value |-> 0]
    ELSE [isValid |-> TRUE, error |-> ErrNone, value |-> validity.v]

\* ------------------------------------------------------------ time
MsPerMinute == 60 * 1000

\* Date.prototype.toISOString: a positional rendering of the instant.
toISOString(t) == <<t \div MsPerMinute, t % MsPerMinute>>

\* new Date(isoString), as milliseconds.
DateParse(iso) == iso[1] * MsPerMinute + iso[2]

\* The instants at which the server clock is read in this model.
Instants == {0, MsPerMinute, MsPerMinute + 1}

\* A second reading of the clock inside one handler: the same millisecond
\* or the next one.
ClockReads(t) == {u \in Instants : t <= u /\ u <= t + 1}

\* ------------------------------------------------------------ urlService
\* nanoid(6): six characters of nanoid's URL alphabet A-Za-z0-9_- ; the
\* draws the random source produces in this model: six letters that spell a
\* reserved word, and a draw with characters outside [a-zA-Z0-9].
NanoidAlphabet == AlphaNumerics \cup {"_", "-"}

NanoidDraws ==
    { <<"h","e","a","l","t","h">>, <<"x","_","7","-","Q","z">> }

\* Faulty variant: the first draw is returned without the has() test.
generateShortcodeUnchecked(store) == NanoidDraws

\* do { shortcode = nanoid(6) } while (urlStorage.has(shortcode)): the codes
\* the loop can return; none when every draw is taken (the loop never ends).
generateShortcode(store) == {s \in NanoidDraws : s \notin DOMAIN store}

\* Faulty variant: the lookup misses the entry.
shortcodeExistsNever(store, shortcode) == FALSE

\* Faulty variant: an entry that has expired counts as absent.
shortcodeExistsUnexpired(store, shortcode) ==
    shortcode \in DOMAIN store /\ now <= DateParse(store[shortcode].expiresAt)

shortcodeExists(store, shortcode) == shortcode \in DOMAIN store

\* Faulty variant: the URL is stored trimmed instead of as submitted.
storeUrlTrimmed(store, urlEntry) ==
    [c \in DOMAIN store \cup {urlEntry.shortcode} |->
        IF c = urlEntry.shortcode
        THEN [urlEntry EXCEPT !.originalUrl = trim(@)]
        ELSE store[c]]

storeUrl(store, urlEntry) ==
    [c \in DOMAIN store \cup {urlEntry.shortcode} |->
        IF c = urlEntry.shortcode THEN urlEntry ELSE store[c]]

\* Faulty variant: the lookup hides the entries that have expired.
getUrlUnexpired(store, shortcode) ==
    IF shortcode \in DOMAIN store /\ now <= DateParse(store[shortcode].expiresAt)
    THEN <<store[shortcode]>>
    ELSE <<>>

\* urlStorage.get: <<entry>> when present, <<>> for undefined.
getUrl(store, shortcode) ==
    IF shortcode \in DOMAIN store THEN <<store[shortcode]>> ELSE <<>>

\* Faulty variant: the click list is written back without the earlier clicks.
recordClickLost(store, shortcode, clickData) ==
    IF shortcode \in DOMAIN store
    THEN [store EXCEPT ![shortcode].clicks = <<clickData>>]
    ELSE store

\* Faulty variant: the click is put in front of the list.
recordClickFirst(store, shortcode, clickData) ==
    IF shortcode \in DOMAIN store
    THEN [store EXCEPT ![shortcode].clicks = <<clickData>> \o @]
    ELSE store

\* Faulty variant: a click for a code without entry makes an entry for it.
recordClickCreating(store, shortcode, clickData) ==
    [c \in DOMAIN store \cup {shortcode} |->
        IF c # shortcode THEN store[c]
        ELSE IF c \in DOMAIN store THEN [store[c] EXCEPT !.clicks = Append(@, clickData)]
        ELSE [shortcode |-> c, clicks |-> <<clickData>>]]

\* Faulty variant: the entries share one clicks array, so a click recorded for
\* one code shows in the clicks of every entry.
recordClickShared(store, shortcode, clickData) ==
    IF shortcode \in DOMAIN store
    THEN [c \in DOMAIN store |-> [store[c] EXCEPT !.clicks = Append(@, clickData)]]
    ELSE store

recordClick(store, shortcode, clickData) ==
    IF Len(getUrl(store, shortcode)) > 0
    THEN [store EXCEPT ![shortcode].clicks = Append(@, clickData)]
    ELSE store

\* Faulty variant: an entry is removed at the instant expiresAt itself.
cleanupExpiredUrlsInclusive(store, nowT) ==
    LET expiredShortcodes == {c \in DOMAIN store : DateParse(store[c].expiresAt) <= nowT}
    IN  [storage |-> [c \in DOMAIN store \ expiredShortcodes |-> store[c]],
         count   |-> Cardinality(expiredShortcodes)]

cleanupExpiredUrls(store, nowT) ==
    LET expiredShortcodes == {c \in DOMAIN store : DateParse(store[c].expiresAt) < nowT}
    IN  [storage |-> [c \in DOMAIN store \ expiredShortcodes |-> store[c]],
         count   |-> Cardinality(expiredShortcodes)]

\* ------------------------------------------------------------ enrichment
IpLoopback == <<":",":","1">>
IpPublic == <<"8",".","8",".","8",".","8">>

\* geoip.lookup(ip) rendered as `${city || 'Unknown'}, ${country || 'Unknown'}`,
\* 'Unknown' when the lookup returns null.
GeoLocation(ip) == IF ip = IpPublic THEN "Unknown, US" ELSE "Unknown"

\* new UAParser(ua).getResult().browser rendered as `${name} ${version}`.trim().
BrowserLabel(ua) == IF ua = "Mozilla/5.0 Chrome/120.0" THEN "Chrome 120.0" ELSE "Unknown"

\* ip.replace(/^.*:/, ''): drops everything up to the last colon.
StripIpPrefix(ip) == SubSeq(ip, LastIndexOf(ip, ":") + 1, Len(ip))

\* ------------------------------------------------------------ controllers
\* The URLs of the request bodies.
UrlPlain == <<"h","t","t","p",":","/","/","a",".","b">>
UrlPadded == <<" ","h","t","t","p",":","/","/","c",".","d","/","x"," ">>
UrlFtp == <<"f","t","p",":","/","/","a",".","b">>

ShortLinkPrefix == <<"http://localhost:3100/">>

NoStats == <<>>

Reply(status, store) ==
    [status |-> status, storage |-> store, shortLink |-> <<>>, expiry |-> <<>>,
     location |-> <<>>, stats |-> NoStats, clicked |-> <<>>]

\* The log calls of a handler that may throw: none of them, the logInfo that
\* reports the request received, or the call that reports the outcome
\* (logValidationError, logShortCodeCollision, logUrlCreated, logUrlNotFound,
\* logUrlExpired, logUrlAccessed, logInfo), which comes after the handler's
\* last change of the registry and before its response.
LogCalls == {"none", "received", "outcome"}

\* catch (error) { logError(...); res.status(500).json(...) }: status 500, or
\* no response at all (status 0) when logError throws as well and the
\* handler's promise is rejected.
caught(store, errorLogged) == Reply(IF errorLogged THEN 500 ELSE 0, store)

\* try { ... } catch of a handler whose run without a throwing log call gives
\* out on the registry store.
tryCatch(store, out, thrown, errorLogged) ==
    IF thrown = "received" THEN caught(store, errorLogged)
    ELSE IF thrown = "outcome" THEN caught(out.storage, errorLogged)
    ELSE out

\* validationService.validateUrl(url) for the URLs the requests carry.
urlValidation == [url \in {UrlPlain, UrlPadded, UrlFtp} |-> validateUrl(url)]

\* Faulty variant: the shortcode is validated whether or not one was sent.
createChecksAlwaysValidating(store, body) ==
    IF ~Truthy(body.url) THEN 400
    ELSE IF ~urlValidation[body.url].isValid THEN 400
    ELSE IF ~validateValidity(body.validity).isValid THEN 400
    ELSE IF ~validateShortcode(body.shortcode).isValid THEN 400
    ELSE IF shortcodeExists(store, body.shortcode) THEN 409
    ELSE 0

\* createShortUrl up to the point where the final shortcode is chosen:
\* 400 or 409 when the request is refused, 0 when it goes on.
createChecks(store, body) ==
    IF ~Truthy(body.url) THEN 400
    ELSE IF ~urlValidation[body.url].isValid THEN 400
    ELSE IF ~validateValidity(body.validity).isValid THEN 400
    ELSE IF Truthy(body.shortcode) /\ ~validateShortcode(body.shortcode).isValid THEN 400
    ELSE IF Truthy(body.shortcode) /\ shortcodeExists(store, body.shortcode) THEN 409
    ELSE 0

\* Faulty variant: a create whose custom code has an entry stores its own entry
\* over it before it answers 409.
createShortUrlOverwriting(store, body, t1, t2, generated) ==
    IF createChecks(store, body) = 400 THEN Reply(400, store)
    ELSE
    LET validityMinutes == validateValidity(body.validity).value
        finalShortcode  == IF Truthy(body.shortcode) THEN body.shortcode ELSE generated
        expiresAt       == t1 + (validityMinutes * 60 * 1000)
        urlEntry        == [shortcode   |-> finalShortcode,
                            originalUrl |-> body.url,
                            createdAt   |-> toISOString(t2),
                            expiresAt   |-> toISOString(expiresAt),
                            clicks      |-> <<>>]
    IN  IF createChecks(store, body) = 409 THEN Reply(409, storeUrl(store, urlEntry))
        ELSE [Reply(201, storeUrl(store, urlEntry)) EXCEPT
                !.shortLink = ShortLinkPrefix \o finalShortcode,
                !.expiry    = toISOString(expiresAt)]

\* createShortUrl: t1 is Date.now() of the expiry computation, t2 the later
\* new Date() of createdAt, generated the result of generateShortcode().
createShortUrl(store, body, t1, t2, generated) ==
    IF createChecks(store, body) # 0 THEN Reply(createChecks(store, body), store)
    ELSE
    LET validityMinutes == validateValidity(body.validity).value
        finalShortcode  == IF Truthy(body.shortcode) THEN body.shortcode ELSE generated
        expiresAt       == t1 + (validityMinutes * 60 * 1000)
        urlEntry        == [shortcode   |-> finalShortcode,
                            originalUrl |-> body.url,
                            createdAt   |-> toISOString(t2),
                            expiresAt   |-> toISOString(expiresAt),
                            clicks      |-> <<>>]
    IN  [Reply(201, storeUrl(store, urlEntry)) EXCEPT
            !.shortLink = ShortLinkPrefix \o finalShortcode,
            !.expiry    = toISOString(expiresAt)]

\* Faulty variant: the entry counts as expired at the instant expiresAt itself.
IsExpiredInclusive(t, urlEntry) == t >= DateParse(urlEntry.expiresAt)

\* new Date() > new Date(urlEntry.expiresAt)
IsExpired(t, urlEntry) == t > DateParse(urlEntry.expiresAt)

\* Faulty variant: the expired entry is deleted when it is looked up.
expiredReplyDeleting(store, shortcode) ==
    Reply(410, [c \in DOMAIN store \ {shortcode} |-> store[c]])

\* The answer of redirectToUrl to a request for an expired entry.
expiredReply(store, shortcode) == Reply(410, store)

\* redirectToUrl from the point where the entry has been looked up and found
\* unexpired: urlEntry is the entry the lookup returned, store the registry
\* when the click is recorded, t2 the clock of the click.
redirectAfterLookup(store, urlEntry, shortcode, client, t2) ==
    LET clickData == [timestamp |-> toISOString(t2),
                      referrer  |-> IF client.referer = "" THEN "Direct" ELSE client.referer,
                      location  |-> GeoLocation(client.ip),
                      userAgent |-> BrowserLabel(IF client.userAgent = "" THEN "Unknown"
                                                 ELSE client.userAgent),
                      ip        |-> StripIpPrefix(client.ip)]
    IN  [Reply(302, recordClick(store, shortcode, clickData)) EXCEPT
            !.location = urlEntry.originalUrl,
            !.clicked  = <<clickData>>]

\* redirectToUrl: t1 is the clock of the expiry test, t2 that of the click.
redirectToUrl(store, shortcode, client, t1, t2) ==
    LET found == getUrl(store, shortcode)
    IN  IF Len(found) = 0 THEN Reply(404, store)
        ELSE IF IsExpired(t1, found[1]) THEN expiredReply(store, shortcode)
        ELSE redirectAfterLookup(store, found[1], shortcode, client, t2)

\* Faulty variant: the click is listed with the address it came from.
ProjectClickWithIp(click) ==
    [timestamp |-> click.timestamp, referrer |-> click.referrer,
     location |-> click.location, userAgent |-> click.userAgent, ip |-> click.ip]

\* A click as the statistics list it (stats.clicks.map).
ProjectClick(click) ==
    [timestamp |-> click.timestamp, referrer |-> click.referrer,
     location |-> click.location, userAgent |-> click.userAgent]

getUrlStats(store, shortcode) ==
    LET found == getUrl(store, shortcode)
    IN  IF Len(found) = 0 THEN Reply(404, store)
        ELSE [Reply(200, store) EXCEPT
                !.stats = << [shortcode   |-> found[1].shortcode,
                              originalUrl |-> found[1].originalUrl,
                              createdAt   |-> found[1].createdAt,
                              expiresAt   |-> found[1].expiresAt,
                              totalClicks |-> Len(found[1].clicks),
                              clicks      |-> [i \in DOMAIN found[1].clicks |->
                                                  ProjectClick(found[1].clicks[i])]] >>]

\* ------------------------------------------------------------ requests
Abcd == <<"a","b","c","d">>

NoClient == [referer |-> "", userAgent |-> "", ip |-> IpLoopback]

Clients ==
    { NoClient,
      [referer |-> "https://ref.example/", userAgent |-> "Mozilla/5.0 Chrome/120.0",
       ip |-> IpPublic] }

\* POST /shorturls bodies: a custom code with a one-minute validity, the same
\* custom code for another URL with the default validity, no shortcode (a
\* generated one), and a URL the validator refuses.
CreateRequests ==
    { [kind |-> "create", url |-> UrlPadded, validity |-> IntegerValue(1),
       shortcode |-> Abcd, client |-> NoClient],
      [kind |-> "create", url |-> UrlPlain, validity |-> Undefined,
       shortcode |-> Abcd, client |-> NoClient],
      [kind |-> "create", url |-> UrlPlain, validity |-> IntegerValue(1),
       shortcode |-> <<>>, client |-> NoClient],
      [kind |-> "create", url |-> UrlFtp, validity |-> IntegerValue(1),
       shortcode |-> Abcd, client |-> NoClient] }

\* The shortcodes of the GET requests.
LookupCodes == {Abcd}

\* GET /:shortcode
RedirectRequests ==
    { [kind |-> "redirect", url |-> <<>>, validity |-> Undefined, shortcode |-> c, client |-> cl] :
        c \in LookupCodes, cl \in Clients }

\* GET /shorturls/:shortcode
StatsRequests ==
    { [kind |-> "stats", url |-> <<>>, validity |-> Undefined, shortcode |-> c, client |-> NoClient] :
        c \in LookupCodes }

Requests == CreateRequests \cup RedirectRequests \cup StatsRequests

\* ------------------------------------------------------------ behaviour
\* The state of the page in the browser.
pageVars == <<urlEntries, loading, batch, posts>>

vars == <<urlStorage, now, sent, pending, last, hung, created, served, calls, invoked, returned,
          pageVars>>

Empty == [x \in {} |-> 0]

NoRequest ==
    [kind |-> "none", url |-> <<>>, validity |-> Undefined, shortcode |-> <<>>, client |-> NoClient]

\* What an operation left behind: the request r it answered and the response
\* out, with what held when the handler started: at, the clock; known, whether
\* the shortcode it is about had an entry; raced, whether another request of
\* the same kind for the same shortcode was in flight.  count is the number
\* cleanupExpiredUrls returned.
Outcome(op, r, out, at, known, raced, count) ==
    [op |-> op, req |-> r, status |-> out.status, shortLink |-> out.shortLink,
     expiry |-> out.expiry, location |-> out.location, stats |-> out.stats,
     at |-> at, known |-> known, raced |-> raced, count |-> count]

\* No function has been called directly.
NoCall == [fn |-> "none"]

\* { url: '', validity: '', shortcode: '' }
EmptyEntry == [url |-> <<>>, validity |-> <<>>, shortcode |-> <<>>]

\* No createMultipleShortUrls call is running.
NoBatch == [state |-> "idle", urlDataArray |-> <<>>, results |-> <<>>, awaiting |-> FALSE]

Init ==
    /\ urlStorage = Empty
    /\ now = 0
    /\ sent = 0
    /\ pending = EmptyBag
    /\ last = Outcome("none", NoRequest, Reply(0, Empty), 0, FALSE, FALSE, 0)
    /\ hung = FALSE
    /\ created = Empty
    /\ served = Empty
    /\ calls = Empty
    /\ invoked = NoCall
    /\ returned = NoCall
    /\ urlEntries = <<EmptyEntry>>
    /\ loading = FALSE
    /\ batch = NoBatch
    /\ posts = <<>>

Put(f, k, v) == [x \in DOMAIN f \cup {k} |-> IF x = k THEN v ELSE f[x]]

Restrict(f, S) == [x \in DOMAIN f \cap S |-> f[x]]

\* The requests in flight beside one copy of r.
Others(r) == pending (-) SetToBag({r})

\* Another request of r's kind for r's shortcode is in flight beside r.
Raced(r) ==
    \E o \in BagToSet(Others(r)) : o.kind = r.kind /\ o.shortcode = r.shortcode

\* A request reaches the server.
Arrive(r) ==
    /\ ~hung
    /\ sent < MaxReq
    /\ BagCardinality(pending) < MaxPending
    /\ sent' = sent + 1
    /\ pending' = pending (+) SetToBag({r})
    /\ UNCHANGED <<urlStorage, now, last, hung, created, served, calls, invoked, returned, pageVars>>

\* The response to request r, which is about shortcode code, leaves the server.
Respond(r, code, out) ==
    /\ pending' = Others(r)
    /\ last' = Outcome(r.kind, r, out, now, code \in DOMAIN urlStorage, Raced(r), 0)
    /\ UNCHANGED sent

\* POST /shorturls, with the log call that throws (thrown) and whether the
\* logError of the catch block succeeds (errorLogged).
CreateStep(body, thrown, errorLogged) ==
    /\ ~hung
    /\ BagIn(body, pending)
    /\ body.kind = "create"
    /\ LET checks   == createChecks(urlStorage, body)
           reached  == checks = 0 /\ thrown # "received"
           generate == reached /\ ~Truthy(body.shortcode)
       IN  /\ generate => generateShortcode(urlStorage) # {}
           /\ \E g \in (IF generate THEN generateShortcode(urlStorage) ELSE {<<>>}),
                 t2 \in (IF reached THEN ClockReads(now) ELSE {now}) :
                LET out   == tryCatch(urlStorage, createShortUrl(urlStorage, body, now, t2, g),
                                      thrown, errorLogged)
                    final == IF Truthy(body.shortcode) THEN body.shortcode ELSE g
                IN  /\ urlStorage' = out.storage
                    /\ now' = t2
                    /\ created' = IF out.status = 201
                                  THEN Put(created, final,
                                           [body |-> body, at |-> now, raced |-> Raced(body)])
                                  ELSE created
                    /\ served' = IF out.status = 201 THEN Put(served, final, <<>>) ELSE served
                    /\ calls' = IF out.status = 201 THEN Put(calls, final, <<>>) ELSE calls
                    /\ Respond(body, final, out)
    /\ UNCHANGED <<hung, invoked, returned, pageVars>>

\* POST /shorturls with a working logging sink.
HandleCreate(body) == CreateStep(body, "none", TRUE)

\* POST /shorturls without a shortcode while every draw of nanoid is taken:
\* the do-while of generateShortcode never ends and the event loop with it.
HangCreate(body) ==
    /\ ~hung
    /\ BagIn(body, pending)
    /\ body.kind = "create"
    /\ createChecks(urlStorage, body) = 0
    /\ ~Truthy(body.shortcode)
    /\ generateShortcode(urlStorage) = {}
    /\ hung' = TRUE
    /\ UNCHANGED <<urlStorage, now, sent, pending, last, created, served, calls, invoked, returned, pageVars>>

\* GET /:shortcode, with the log call that throws and whether logError succeeds.
RedirectStep(r, thrown, errorLogged) ==
    /\ ~hung
    /\ BagIn(r, pending)
    /\ r.kind = "redirect"
    /\ \E t2 \in ClockReads(now) :
          LET ran == redirectToUrl(urlStorage, r.shortcode, r.client, now, t2)
              out == tryCatch(urlStorage, ran, thrown, errorLogged)
          IN  /\ (ran.status = 302 /\ thrown # "received") \/ t2 = now
              /\ urlStorage' = out.storage
              /\ now' = t2
              /\ served' = IF out.status = 302 /\ r.shortcode \in DOMAIN served
                           THEN [served EXCEPT ![r.shortcode] = Append(@, Raced(r))]
                           ELSE served
              /\ calls' = IF /\ thrown # "received"
                             /\ Len(ran.clicked) > 0
                             /\ r.shortcode \in DOMAIN calls
                          THEN [calls EXCEPT ![r.shortcode] = Append(@, ran.clicked[1])]
                          ELSE calls
              /\ Respond(r, r.shortcode, out)
    /\ UNCHANGED <<hung, created, invoked, returned, pageVars>>

\* GET /:shortcode with a working logging sink.
HandleRedirect(r) == RedirectStep(r, "none", TRUE)

\* GET /shorturls/:shortcode, with the log call that throws and whether
\* logError succeeds.
StatsStep(r, thrown, errorLogged) ==
    /\ ~hung
    /\ BagIn(r, pending)
    /\ r.kind = "stats"
    /\ LET out == tryCatch(urlStorage, getUrlStats(urlStorage, r.shortcode), thrown, errorLogged)
       IN  /\ urlStorage' = out.storage
           /\ Respond(r, r.shortcode, out)
    /\ UNCHANGED <<now, hung, created, served, calls, invoked, returned, pageVars>>

\* GET /shorturls/:shortcode with a working logging sink.
HandleStats(r) == StatsStep(r, "none", TRUE)

\* cleanupExpiredUrls(), called by the host of the service.
Sweep ==
    /\ ~hung
    /\ LET out == cleanupExpiredUrls(urlStorage, now)
       IN  /\ urlStorage' = out.storage
           /\ last' = Outcome("sweep", NoRequest, Reply(0, Empty), now, FALSE, FALSE, out.count)
           /\ created' = Restrict(created, DOMAIN out.storage)
           /\ served' = Restrict(served, DOMAIN out.storage)
           /\ calls' = Restrict(calls, DOMAIN out.storage)
    /\ UNCHANGED <<now, sent, pending, hung, invoked, returned, pageVars>>

\* Time passes.
Tick ==
    /\ ~hung
    /\ \E t \in Instants : t > now /\ now' = t
    /\ UNCHANGED <<urlStorage, sent, pending, last, hung, created, served, calls, invoked, returned, pageVars>>

Next ==
    \/ \E r \in Requests : Arrive(r)
    \/ \E r \in Requests : HandleCreate(r)
    \/ \E r \in Requests : HangCreate(r)
    \/ \E r \in Requests : HandleRedirect(r)
    \/ \E r \in Requests : HandleStats(r)
    \/ Sweep
    \/ Tick

Spec == Init /\ [][Next]_vars

\* ------------------------------------------------------------ failing log sink
\* The server with a logging sink that may fail: any one log call of a
\* handler may throw.
HandleCreateLogging(body) ==
    \E thrown \in LogCalls, errorLogged \in BOOLEAN : CreateStep(body, thrown, errorLogged)

HandleRedirectLogging(r) ==
    \E thrown \in LogCalls, errorLogged \in BOOLEAN : RedirectStep(r, thrown, errorLogged)

HandleStatsLogging(r) ==
    \E thrown \in LogCalls, errorLogged \in BOOLEAN : StatsStep(r, thrown, errorLogged)

NextSink ==
    \/ \E r \in Requests : Arrive(r)
    \/ \E r \in Requests : HandleCreateLogging(r)
    \/ \E r \in Requests : HangCreate(r)
    \/ \E r \in Requests : HandleRedirectLogging(r)
    \/ \E r \in Requests : HandleStatsLogging(r)
    \/ Sweep
    \/ Tick

SpecSink == Init /\ [][NextSink]_vars

\* ------------------------------------------------------------ direct calls
\* The validators and the handlers' parts as functions: each behaviour of
\* SpecCalls calls one of them once, with arguments drawn from the sets below.

\* Longest shortcode built from ShortcodeChars.
MaxCodeLen == 4

ShortcodeChars == {"a", "P", "1", "-"}

Strings(chars, n) == UNION {[1..k -> chars] : k \in 0..n}

\* The upper-case letter of a lower-case letter.
UpperChar(c) ==
    IF c \in Range(LowerLetters)
    THEN UpperLetters[CHOOSE i \in DOMAIN LowerLetters : LowerLetters[i] = c]
    ELSE c

\* A word in every mix of letter cases.
CaseVariants(w) ==
    {[i \in DOMAIN w |-> IF i \in U THEN UpperChar(w[i]) ELSE w[i]] : U \in SUBSET DOMAIN w}

Abc123 == <<"A","b","c","1","2","3">>
TenChars == <<"a","b","c","d","e","f","g","h","i","j">>
ElevenChars == TenChars \o <<"k">>

\* The shortcodes handed to validateShortcode.
ShortcodeInputs ==
    Strings(ShortcodeChars, MaxCodeLen)
        \cup UNION {CaseVariants(w) : w \in reservedWords}
        \cup {<<"a","b">>, Abc123, TenChars, ElevenChars, <<"a","p","i","s">>,
              <<"a","b"," ","d">>, <<"a","b","c","d","e","f","g","h","i","-">>}

CallValidateShortcode(shortcode) ==
    /\ invoked = NoCall
    /\ invoked' = [fn |-> "validateShortcode", shortcode |-> shortcode]
    /\ returned' = validateShortcode(shortcode)
    /\ UNCHANGED <<urlStorage, now, sent, pending, last, hung, created, served, calls, pageVars>>

\* Registry contents for the calls that read the registry: any of the custom
\* code and the codes nanoid draws, stored at instant 0 for one minute.
StoreWith(codes) ==
    [c \in codes |-> [shortcode   |-> c,
                      originalUrl |-> UrlPlain,
                      createdAt   |-> toISOString(0),
                      expiresAt   |-> toISOString(MsPerMinute),
                      clicks      |-> <<>>]]

Stores == {StoreWith(codes) : codes \in SUBSET ({Abcd} \cup NanoidDraws)}

\* Bodies of POST /shorturls handed to createShortUrl.
CreateBodies ==
    { [kind |-> "create", url |-> u, validity |-> v, shortcode |-> c, client |-> NoClient] :
        u \in {UrlPlain, UrlPadded, UrlFtp, <<>>},
        v \in {Undefined, IntegerValue(1), IntegerValue(0)},
        c \in {<<>>, Abcd, <<"a","b">>, <<"a","d","m","i","n">>} }

\* createShortUrl on a given registry; a call whose generateShortcode finds
\* no free code does not return.
CallCreateShortUrl(store, body, t1) ==
    /\ invoked = NoCall
    /\ LET generate == createChecks(store, body) = 0 /\ ~Truthy(body.shortcode)
       IN  \E g \in (IF generate THEN generateShortcode(store) ELSE {<<>>}),
              t2 \in ClockReads(t1) :
              /\ invoked' = [fn |-> "createShortUrl", store |-> store, body |-> body]
              /\ returned' = createShortUrl(store, body, t1, t2, g)
    /\ UNCHANGED <<urlStorage, now, sent, pending, last, hung, created, served, calls, pageVars>>

\* The validity fields handed to validateValidity: absent, integers around
\* the limits, strings (empty, numeric, not numeric), a fraction, a boolean.
ValidityInputs ==
    {Undefined, NotANumber, FractionValue(1)}
        \cup {IntegerValue(n) : n \in {-1, 0, 1, 2, DefaultValidity, MaxValidity - 1,
                                       MaxValidity, MaxValidity + 1}}
        \cup {StringValue(str) : str \in {<<>>, <<"3","0">>, <<"0">>, <<"a","b","c">>}}

CallValidateValidity(validity) ==
    /\ invoked = NoCall
    /\ invoked' = [fn |-> "validateValidity", validity |-> validity]
    /\ returned' = validateValidity(validity)
    /\ UNCHANGED <<urlStorage, now, sent, pending, last, hung, created, served, calls, pageVars>>

\* The strings handed to validateUrl: blanks, a scheme, a delimiter, a host
\* and blanks, in every combination.
UrlInputs ==
    { before \o scheme \o delimiter \o host \o after :
        before    \in {<<>>, <<" ">>, <<"\t", " ">>},
        scheme    \in {<<>>, <<"h","t","t","p">>, <<"h","t","t","p","s">>, <<"H","T","T","P">>,
                       <<"f","t","p">>, <<"m","a","i","l","t","o">>},
        delimiter \in {<<>>, <<":">>, <<":","/","/">>},
        host      \in {<<>>, <<"x",".","c","o","m">>, <<"e","x"," ","a","m","p","l","e",".","c","o","m">>,
                       <<"A",".","b">>, <<"a","b">>, <<"-","a",".","b">>},
        after     \in {<<>>, <<" ">>} }

CallValidateUrl(url) ==
    /\ invoked = NoCall
    /\ invoked' = [fn |-> "validateUrl", url |-> url]
    /\ returned' = validateUrl(url)
    /\ UNCHANGED <<urlStorage, now, sent, pending, last, hung, created, served, calls, pageVars>>

\* The second part of redirectToUrl on a registry that may have changed since
\* the lookup: the entry of code was found unexpired, store is the registry
\* at the time of recordClick.
CallRedirectAfterLookup(store, code, client, t2) ==
    /\ invoked = NoCall
    /\ invoked' = [fn |-> "redirectAfterLookup", store |-> store,
                   urlEntry |-> StoreWith({code})[code], client |-> client]
    /\ returned' = redirectAfterLookup(store, StoreWith({code})[code], code, client, t2)
    /\ UNCHANGED <<urlStorage, now, sent, pending, last, hung, created, served, calls, pageVars>>

\* The clickData that redirectToUrl builds for a client at instant 0.
ClickSamples ==
    {redirectAfterLookup(Empty, StoreWith({Abcd})[Abcd], Abcd, client, 0).clicked[1] :
        client \in Clients}

\* Two recordClick calls in succession, as made by the handlers of two GET
\* requests that were in flight together: first and second are the shortcode
\* and the clickData of each; between is the registry after the first call.
CallRecordClick(store, first, second) ==
    /\ invoked = NoCall
    /\ invoked' = [fn |-> "recordClick", store |-> store, first |-> first, second |-> second]
    /\ returned' =
          LET between == recordClick(store, first.shortcode, first.clickData)
          IN  [between |-> between,
               storage |-> recordClick(between, second.shortcode, second.clickData)]
    /\ UNCHANGED <<urlStorage, now, sent, pending, last, hung, created, served, calls, pageVars>>

NextCalls ==
    \/ \E store \in Stores, code \in {Abcd} \cup NanoidDraws, client \in Clients,
          t2 \in {t \in Instants : t <= MsPerMinute} :
          CallRedirectAfterLookup(store, code, client, t2)
    \/ \E url \in UrlInputs : CallValidateUrl(url)
    \/ \E validity \in ValidityInputs : CallValidateValidity(validity)
    \/ \E shortcode \in ShortcodeInputs : CallValidateShortcode(shortcode)
    \/ \E store \in Stores, body \in CreateBodies, t1 \in Instants :
          CallCreateShortUrl(store, body, t1)
    \/ \E store \in Stores, a \in {Abcd} \cup NanoidDraws, b \in {Abcd} \cup NanoidDraws,
          k \in ClickSamples, l \in ClickSamples :
          CallRecordClick(store, [shortcode |-> a, clickData |-> k],
                                 [shortcode |-> b, clickData |-> l])

SpecCalls == Init /\ [][NextCalls]_vars

\* ------------------------------------------------------------ page
\* The URL shortener page of the frontend (pages/UrlShortener.jsx) with the
\* validators of utils/helpers.jsx and the batch call of
\* services/apiService.jsx.  The page state kept here is urlEntries and
\* loading; the results shown, the error messages, the snackbar and the log
\* calls, which no handler reads back, are left out.  The server is the
\* environment of the page: each api.post is answered by one of Responses.

\* The highest number of rows of the form.
MaxUrlEntries == 5

\* The longest urlDataArray handed to createMultipleShortUrls directly.
MaxBatch == 3

\* " http://c.d/x " without its blanks.
UrlTrimmed == trim(UrlPadded)

\* /^https?:\/\/.+/i
urlPattern(s) ==
    \E prefix \in {<<"h","t","t","p",":","/","/">>, <<"h","t","t","p","s",":","/","/">>} :
        /\ Len(s) > Len(prefix)
        /\ toLowerCase(SubSeq(s, 1, Len(prefix))) = prefix

HelpersInvalid(msg) == [isValid |-> FALSE, error |-> msg]

\* validateUrl of utils/helpers.jsx
helpersValidateUrl(url) ==
    IF ~Truthy(url) \/ trim(url) = <<>> THEN HelpersInvalid("URL is required")
    ELSE
    LET trimmedUrl == trim(url)
        urlObj     == URL(trimmedUrl)
    IN  IF " " \in Range(trimmedUrl) THEN HelpersInvalid("URL cannot contain spaces")
        ELSE IF ~urlPattern(trimmedUrl)
             THEN HelpersInvalid("URL must start with http:// or https://")
        ELSE IF ~urlObj.ok THEN HelpersInvalid("Invalid URL format")
        ELSE IF ~hostnameRegex(urlObj.hostname) \/ "." \notin Range(urlObj.hostname)
             THEN HelpersInvalid("URL must have a valid domain name")
        ELSE IF \/ startsWith(urlObj.hostname, "-") \/ endsWith(urlObj.hostname, "-")
                \/ startsWith(urlObj.hostname, ".") \/ endsWith(urlObj.hostname, ".")
             THEN HelpersInvalid("URL domain name format is invalid")
        ELSE [isValid |-> TRUE, error |-> ErrNone]

\* validateShortcode of utils/helpers.jsx
helpersValidateShortcode(shortcode) ==
    IF ~Truthy(shortcode) \/ trim(shortcode) = <<>> THEN [isValid |-> TRUE, error |-> ErrNone]
    ELSE
    LET trimmedShortcode == trim(shortcode)
    IN  IF Len(trimmedShortcode) < 4 \/ Len(trimmedShortcode) > 10
        THEN HelpersInvalid("Shortcode must be between 4 and 10 characters")
        ELSE IF ~alphanumericRegex(trimmedShortcode)
        THEN HelpersInvalid("Shortcode can only contain letters and numbers")
        ELSE IF toLowerCase(trimmedShortcode) \in reservedWords
        THEN HelpersInvalid("This shortcode is reserved. Please choose another.")
        ELSE [isValid |-> TRUE, error |-> ErrNone]

DecimalDigits == <<"0","1","2","3","4","5","6","7","8","9">>

\* The value of a string of decimal digits.
RECURSIVE DigitsValue(_)
DigitsValue(str) ==
    IF Len(str) = 0 THEN 0
    ELSE 10 * DigitsValue(SubSeq(str, 1, Len(str) - 1))
            + (CHOOSE d \in 0..9 : DecimalDigits[d + 1] = str[Len(str)])

\* parseInt(str, 10): the value of the digits that str starts with, after an
\* optional sign; NaN when there is none.
parseInt(str) ==
    LET negative == startsWith(str, "-")
        unsigned == IF negative \/ startsWith(str, "+") THEN Tail(str) ELSE str
        digits   == Until(unsigned, {c \in Range(unsigned) : c \notin Digits})
    IN  IF Len(digits) = 0 THEN [isNaN |-> TRUE, value |-> 0]
        ELSE [isNaN |-> FALSE,
              value |-> IF negative THEN 0 - DigitsValue(digits) ELSE DigitsValue(digits)]

\* validateValidity of utils/helpers.jsx; value is the number sent to the
\* server, Undefined when the field is refused.
helpersValidateValidity(validity) ==
    IF ~Truthy(validity) \/ trim(validity) = <<>>
    THEN [isValid |-> TRUE, error |-> ErrNone, value |-> IntegerValue(DefaultValidity)]
    ELSE
    LET numericValue == parseInt(trim(validity))
    IN  IF numericValue.isNaN
        THEN [isValid |-> FALSE, error |-> "Validity must be a number", value |-> Undefined]
        ELSE IF numericValue.value < MinValidity \/ numericValue.value > MaxValidity
        THEN [isValid |-> FALSE,
              error |-> "Validity must be between 1 and 43200 minutes (30 days)",
              value |-> Undefined]
        ELSE [isValid |-> TRUE, error |-> ErrNone, value |-> IntegerValue(numericValue.value)]

\* validateUrlEntry: errors maps the refused fields to their messages;
\* shortcode?.trim() || undefined is the empty sequence when not given.
validateUrlEntry(entry) ==
    LET urlCheck       == helpersValidateUrl(entry.url)
        shortcodeCheck == helpersValidateShortcode(entry.shortcode)
        validityCheck  == helpersValidateValidity(entry.validity)
        refused == {f \in {"url", "shortcode", "validity"} :
                       \/ f = "url" /\ ~urlCheck.isValid
                       \/ f = "shortcode" /\ ~shortcodeCheck.isValid
                       \/ f = "validity" /\ ~validityCheck.isValid}
    IN  [isValid |-> refused = {},
         errors  |-> [f \in refused |->
                        IF f = "url" THEN urlCheck.error
                        ELSE IF f = "shortcode" THEN shortcodeCheck.error
                        ELSE validityCheck.error],
         validatedData |-> [url       |-> trim(entry.url),
                            shortcode |-> trim(entry.shortcode),
                            validity  |-> validityCheck.value]]

\* What the user types into the url field of a row; the validity and the
\* shortcode fields are left empty.
FieldValues(field) ==
    IF field = "url" THEN {<<>>, UrlPadded, UrlFtp} ELSE {<<>>}

\* The rows the form can hold: what was typed, trimmed or not.
FormEntries ==
    [url       : FieldValues("url") \cup {trim(v) : v \in FieldValues("url")},
     validity  : FieldValues("validity"),
     shortcode : FieldValues("shortcode")]

\* validateUrlEntry(entry) for the rows the form can hold.
entryValidation == [entry \in FormEntries |-> validateUrlEntry(entry)]

\* The shortcode of each entry as validateUrlEntry returns it.
validatedShortcodes(entries) ==
    [j \in DOMAIN entries |-> entryValidation[entries[j]].validatedData.shortcode]

\* shortcodes.has(...) for the entry at place i (counted from 1): its
\* shortcode was given by an earlier entry of the batch, in any letter case.
duplicateShortcode(shortcodes, i) ==
    /\ Truthy(shortcodes[i])
    /\ \E j \in 1..(i - 1) :
          Truthy(shortcodes[j]) /\ toLowerCase(shortcodes[j]) = toLowerCase(shortcodes[i])

\* results.push({ index: i, ...validation }) with the duplicate marked.
validationResult(validation, index, duplicate) ==
    [index |-> index,
     isValid |-> validation.isValid /\ ~duplicate,
     errors |-> IF duplicate
                THEN Put(validation.errors, "shortcode", "Duplicate shortcode in this batch")
                ELSE validation.errors,
     validatedData |-> validation.validatedData]

\* validateMultipleEntries: one result per entry, in order.
validateMultipleEntries(entries) ==
    [i \in DOMAIN entries |->
        validationResult(entryValidation[entries[i]], i - 1,
                         duplicateShortcode(validatedShortcodes(entries), i))]

\* What the server, or the network, gives back to one api.post: a response
\* with a status and a body, or no response at all (status 0).
Responses ==
    { [status |-> 201, data |-> "shortLink, expiry"],
      [status |-> 409, data |-> "Shortcode already exists"],
      [status |-> 0, data |-> ""] }

\* createShortUrl of services/apiService.jsx, given what api.post met: axios
\* resolves on a 2xx status and rejects otherwise.
apiCreateShortUrl(urlData, response) ==
    IF response.status >= 200 /\ response.status < 300
    THEN [success |-> TRUE, data |-> response.data, error |-> ""]
    ELSE [success |-> FALSE, data |-> "",
          error |-> IF response.status = 0 THEN "Network error" ELSE response.data]

\* results.push({ ...result, originalData: urlData })
BatchResult(urlData, response) ==
    [success      |-> apiCreateShortUrl(urlData, response).success,
     data         |-> apiCreateShortUrl(urlData, response).data,
     error        |-> apiCreateShortUrl(urlData, response).error,
     originalData |-> urlData]

\* Faulty variant: a row is added as long as there are no more than five.
addUrlEntryUpToSix ==
    /\ urlEntries' = IF Len(urlEntries) <= MaxUrlEntries
                     THEN Append(urlEntries, EmptyEntry)
                     ELSE urlEntries
    /\ UNCHANGED <<urlStorage, now, sent, pending, last, hung, created, served, calls,
                   invoked, returned, loading, batch, posts>>

addUrlEntry ==
    /\ urlEntries' = IF Len(urlEntries) < MaxUrlEntries
                     THEN Append(urlEntries, EmptyEntry)
                     ELSE urlEntries
    /\ UNCHANGED <<urlStorage, now, sent, pending, last, hung, created, served, calls,
                   invoked, returned, loading, batch, posts>>

\* removeUrlEntry(index), index counted from 1 here.
removeUrlEntry(index) ==
    /\ index \in DOMAIN urlEntries
    /\ urlEntries' = IF Len(urlEntries) > 1
                     THEN [i \in 1..(Len(urlEntries) - 1) |->
                              IF i < index THEN urlEntries[i] ELSE urlEntries[i + 1]]
                     ELSE urlEntries
    /\ UNCHANGED <<urlStorage, now, sent, pending, last, hung, created, served, calls,
                   invoked, returned, loading, batch, posts>>

updateUrlEntry(index, field, value) ==
    /\ index \in DOMAIN urlEntries
    /\ urlEntries' = [urlEntries EXCEPT ![index][field] = value]
    /\ UNCHANGED <<urlStorage, now, sent, pending, last, hung, created, served, calls,
                   invoked, returned, loading, batch, posts>>

\* handleUrlBlur(index, e.target.value): the url field of a row loses the
\* focus and is trimmed.
handleUrlBlur(index) ==
    /\ index \in DOMAIN urlEntries
    /\ LET value        == urlEntries[index].url
           trimmedValue == trim(value)
       IN  IF trimmedValue # value
           THEN updateUrlEntry(index, "url", trimmedValue)
           ELSE UNCHANGED vars

\* clearForm; its button is disabled while loading.
clearForm ==
    /\ ~loading
    /\ urlEntries' = <<EmptyEntry>>
    /\ UNCHANGED <<urlStorage, now, sent, pending, last, hung, created, served, calls,
                   invoked, returned, loading, batch, posts>>

\* urlEntries.filter(entry => entry.url.trim() !== '')
nonEmptyEntries(entries) == SelectSeq(entries, LAMBDA entry : trim(entry.url) # <<>>)

\* validationResults.some(result => !result.isValid)
hasErrors(validationResults) ==
    \E i \in DOMAIN validationResults : ~validationResults[i].isValid

\* validationResults.map(result => result.validatedData)
validEntries(validationResults) ==
    [i \in DOMAIN validationResults |-> validationResults[i].validatedData]

\* The createMultipleShortUrls call that handleSubmit makes for the
\* validation results of the rows with a url: none when there is no such
\* row or when a row is refused.
submission(validationResults) ==
    IF Len(validationResults) = 0 \/ hasErrors(validationResults)
    THEN NoBatch
    ELSE [state |-> "running", urlDataArray |-> validEntries(validationResults),
          results |-> <<>>, awaiting |-> FALSE]

\* handleSubmit up to its await: the rows with a url are validated and, when
\* all of them pass, createMultipleShortUrls is called with their
\* validatedData.  The button is disabled while loading.
handleSubmit ==
    /\ ~loading
    /\ batch' = submission(validateMultipleEntries(nonEmptyEntries(urlEntries)))
    /\ loading' = (batch'.state = "running")
    /\ UNCHANGED <<urlStorage, now, sent, pending, last, hung, created, served, calls,
                   invoked, returned, urlEntries, posts>>

\* handleSubmit from its await on: createMultipleShortUrls has returned, or
\* thrown, and the finally block ends the loading.
handleSubmitResumed ==
    /\ loading
    /\ batch.state = "running"
    /\ loading' = FALSE
    /\ batch' = NoBatch
    /\ UNCHANGED <<urlStorage, now, sent, pending, last, hung, created, served, calls,
                   invoked, returned, urlEntries, posts>>

NextPage ==
    \/ addUrlEntry
    \/ \E index \in 1..MaxUrlEntries : removeUrlEntry(index)
    \/ \E index \in 1..MaxUrlEntries, field \in {"url", "validity", "shortcode"} :
          \E value \in FieldValues(field) : updateUrlEntry(index, field, value)
    \/ \E index \in 1..MaxUrlEntries : handleUrlBlur(index)
    \/ clearForm
    \/ handleSubmit
    \/ handleSubmitResumed

SpecPage == Init /\ [][NextPage]_vars

\* ------------------------------------------------------------ batch call
\* createMultipleShortUrls called directly, step by step: the for loop posts
\* the entry after the last result, waits for the answer and pushes the result.

\* The entries of the arrays handed to createMultipleShortUrls.
UrlData ==
    { [url |-> UrlPlain, shortcode |-> <<>>, validity |-> IntegerValue(DefaultValidity)],
      [url |-> UrlTrimmed, shortcode |-> Abcd, validity |-> IntegerValue(1)] }

Batches == UNION {[1..n -> UrlData] : n \in 0..MaxBatch}

InitBatch ==
    /\ urlStorage = Empty
    /\ now = 0
    /\ sent = 0
    /\ pending = EmptyBag
    /\ last = Outcome("none", NoRequest, Reply(0, Empty), 0, FALSE, FALSE, 0)
    /\ hung = FALSE
    /\ created = Empty
    /\ served = Empty
    /\ calls = Empty
    /\ invoked = NoCall
    /\ returned = NoCall
    /\ urlEntries = <<EmptyEntry>>
    /\ loading = FALSE
    /\ \E urlDataArray \in Batches :
          batch = [state |-> "running", urlDataArray |-> urlDataArray,
                   results |-> <<>>, awaiting |-> FALSE]
    /\ posts = <<>>

\* Faulty variant: the loop does not wait for the answer before it posts
\* the next entry.
PostUnawaited ==
    /\ batch.state = "running"
    /\ Len(posts) < Len(batch.urlDataArray)
    /\ batch' = [batch EXCEPT !.awaiting = TRUE]
    /\ posts' = Append(posts, [urlData  |-> batch.urlDataArray[Len(posts) + 1],
                               answered |-> Len(batch.results),
                               response |-> [status |-> 0, data |-> ""]])
    /\ UNCHANGED <<urlStorage, now, sent, pending, last, hung, created, served, calls,
                   invoked, returned, urlEntries, loading>>

\* await createShortUrl(urlData) up to api.post: the request of the next
\* entry leaves.  posts notes how many results there were at that moment.
Post ==
    /\ batch.state = "running"
    /\ ~batch.awaiting
    /\ Len(batch.results) < Len(batch.urlDataArray)
    /\ batch' = [batch EXCEPT !.awaiting = TRUE]
    /\ posts' = Append(posts, [urlData  |-> batch.urlDataArray[Len(batch.results) + 1],
                               answered |-> Len(batch.results),
                               response |-> [status |-> 0, data |-> ""]])
    /\ UNCHANGED <<urlStorage, now, sent, pending, last, hung, created, served, calls,
                   invoked, returned, urlEntries, loading>>

\* The api.post in flight is answered, or fails: createShortUrl returns and
\* the loop pushes its result.
Answer(response) ==
    /\ batch.state = "running"
    /\ batch.awaiting
    /\ batch' = [batch EXCEPT
                    !.awaiting = FALSE,
                    !.results = Append(@, BatchResult(batch.urlDataArray[Len(@) + 1], response))]
    /\ posts' = [posts EXCEPT ![Len(posts)].response = response]
    /\ UNCHANGED <<urlStorage, now, sent, pending, last, hung, created, served, calls,
                   invoked, returned, urlEntries, loading>>

\* return results
Return ==
    /\ batch.state = "running"
    /\ ~batch.awaiting
    /\ Len(batch.results) = Len(batch.urlDataArray)
    /\ batch' = [batch EXCEPT !.state = "returned"]
    /\ UNCHANGED <<urlStorage, now, sent, pending, last, hung, created, served, calls,
                   invoked, returned, urlEntries, loading, posts>>

NextBatch ==
    \/ Post
    \/ \E response \in Responses : Answer(response)
    \/ Return

SpecBatch == InitBatch /\ [][NextBatch]_vars

\* ------------------------------------------------------------ properties
\* The request passes the three validators of createShortUrl.
PassesValidation(r) ==
    /\ Truthy(r.url)
    /\ validateUrl(r.url).isValid
    /\ validateValidity(r.validity).isValid
    /\ Truthy(r.shortcode) => validateShortcode(r.shortcode).isValid

\* The shortcode a 201 response issued: the short link without its prefix.
IssuedCode(o) == Tail(o.shortLink)

\* The latest operation answered a valid create request carrying a custom code.
LastCustomCreate ==
    /\ last.op = "create"
    /\ Truthy(last.req.shortcode)
    /\ PassesValidation(last.req)

\* The latest operation answered a create request that was in a race for its
\* custom code: another create for the code was in flight while it ran, or the
\* entry of the code was stored by a create that ran while another was in flight.
LastCreateRaced ==
    /\ LastCustomCreate
    /\ \/ last.raced
       \/ /\ last.req.shortcode \in DOMAIN created
          /\ created[last.req.shortcode].raced

\* C1: of the valid create requests that race for one custom shortcode, the
\* one handled while the code has no entry is answered 201 and its entry is
\* stored, and one handled while the code has an entry is answered 409 and the
\* entry stays the winner's: two racing creates never both succeed.
C1_RacingCreatesOneWinner ==
    LastCreateRaced =>
        LET c == last.req.shortcode
        IN  \/ /\ ~last.known
               /\ last.status = 201
               /\ c \in DOMAIN urlStorage
               /\ urlStorage[c].originalUrl = last.req.url
               /\ created[c].body = last.req
            \/ /\ last.known
               /\ last.status = 409
               /\ c \in DOMAIN urlStorage
               /\ urlStorage[c].originalUrl = created[c].body.url

\* Two creates for the same custom code and different URLs were sent and
\* nothing else; the first one handled ran while the other was in flight and
\* got 201, the other has now been answered 409.
C1_Witness ==
    /\ sent = 2
    /\ pending = EmptyBag
    /\ LastCustomCreate
    /\ last.status = 409
    /\ last.req.shortcode \in DOMAIN created
    /\ created[last.req.shortcode].raced
    /\ created[last.req.shortcode].body.url # last.req.url
    /\ urlStorage[last.req.shortcode].originalUrl = created[last.req.shortcode].body.url

\* C2: for every stored code the totalClicks that GET /shorturls/:code reports
\* equals the number of requests answered 302 for the entry, whatever the order
\* in which the requests in flight were handled.
C2_NoLostClicks ==
    \A c \in DOMAIN urlStorage :
        /\ c \in DOMAIN served
        /\ getUrlStats(urlStorage, c).status = 200
        /\ getUrlStats(urlStorage, c).stats[1].totalClicks = Len(served[c])

\* Two redirects of one code that were in flight together have both been
\* answered 302, and the entry counts two clicks.
C2_Witness ==
    \E c \in DOMAIN urlStorage :
        /\ Len(served[c]) = 2
        /\ served[c][1]
        /\ pending = EmptyBag
        /\ Len(urlStorage[c].clicks) = 2

\* C3: a redirect answered 302 goes to exactly the url that the create
\* request which stored the entry submitted.
C3_RedirectTargetIsSubmittedUrl ==
    (last.op = "redirect" /\ last.status = 302) =>
        /\ last.req.shortcode \in DOMAIN created
        /\ last.location = created[last.req.shortcode].body.url

\* A redirect to a URL that was submitted with blanks around it.
C3_Witness ==
    /\ last.op = "redirect"
    /\ last.status = 302
    /\ last.location = UrlPadded

\* The expiry instant of a stored entry, in milliseconds.
ExpiryMs(c) == urlStorage[c].expiresAt[1] * (60 * 1000) + urlStorage[c].expiresAt[2]

\* C4: a redirect of a stored code is answered 302 exactly when the clock is
\* not after expiresAt and 410 exactly when it is; an entry created with
\* validity 1 is served up to 60000 ms after its creation and refused later.
C4_ExpiryDecidesResolve ==
    (last.op = "redirect" /\ last.known) =>
        LET c == last.req.shortcode
        IN  /\ c \in DOMAIN urlStorage
            /\ last.status \in {302, 410}
            /\ last.status = 302 <=> last.at <= ExpiryMs(c)
            /\ last.status = 410 <=> last.at > ExpiryMs(c)
            /\ created[c].body.validity = IntegerValue(1) =>
                  (last.status = 302 <=> last.at - created[c].at <= 60000)

\* An entry created with validity 1 is refused 60001 ms after its creation.
C4_Witness ==
    /\ last.op = "redirect"
    /\ last.known
    /\ last.status = 410
    /\ created[last.req.shortcode].body.validity = IntegerValue(1)
    /\ last.at - created[last.req.shortcode].at = 60001

\* The step answers request r.
Answered(r) ==
    /\ BagIn(r, pending)
    /\ pending' = pending (-) SetToBag({r})
    /\ sent' = sent

\* C5: a redirect of a code whose entry has expired is answered 410 and leaves
\* urlStorage as it was: the entry is not deleted and gets no click.
C5_ExpiredResolveChangesNothing ==
    [][ \A r \in RedirectRequests :
          (/\ Answered(r)
           /\ r.shortcode \in DOMAIN urlStorage
           /\ now > ExpiryMs(r.shortcode))
          => (last'.status = 410 /\ urlStorage' = urlStorage) ]_vars

\* An entry that was clicked once has been refused after its expiry and still
\* holds its one click.
C5_Witness ==
    /\ last.op = "redirect"
    /\ last.status = 410
    /\ last.req.shortcode \in DOMAIN urlStorage
    /\ Len(calls[last.req.shortcode]) = 1
    /\ Len(urlStorage[last.req.shortcode].clicks) = 1

\* C6: a statistics request is answered 200, with the entry's fields and its
\* click count, exactly when the code has an entry, expired or not, and 404
\* exactly when it has none.
C6_StatsIgnoreExpiry ==
    (last.op = "stats") =>
        LET c == last.req.shortcode
        IN  /\ last.status = 200 <=> last.known
            /\ last.status = 404 <=> ~last.known
            /\ last.status = 200 =>
                  /\ c \in DOMAIN urlStorage
                  /\ Len(last.stats) = 1
                  /\ last.stats[1].shortcode = c
                  /\ last.stats[1].originalUrl = urlStorage[c].originalUrl
                  /\ last.stats[1].createdAt = urlStorage[c].createdAt
                  /\ last.stats[1].expiresAt = urlStorage[c].expiresAt
                  /\ last.stats[1].totalClicks = Len(urlStorage[c].clicks)

\* Statistics of an entry that had expired when they were asked for.
C6_Witness ==
    /\ last.op = "stats"
    /\ last.status = 200
    /\ last.req.shortcode \in DOMAIN urlStorage
    /\ last.at > ExpiryMs(last.req.shortcode)

\* C7: for every stored code the clicks that the statistics list are, in
\* number and in order, the clickData of the recordClick calls made for the
\* entry since it was stored, and totalClicks is their number.
C7_ClicksAreTheCallsInOrder ==
    \A c \in DOMAIN urlStorage :
        LET st == getUrlStats(urlStorage, c).stats[1]
        IN  /\ st.totalClicks = Len(st.clicks)
            /\ Len(st.clicks) = Len(calls[c])
            /\ \A i \in DOMAIN calls[c] :
                  st.clicks[i] = [timestamp |-> calls[c][i].timestamp,
                                  referrer  |-> calls[c][i].referrer,
                                  location  |-> calls[c][i].location,
                                  userAgent |-> calls[c][i].userAgent]

\* Two clicks that differ were recorded for one entry.
C7_Witness ==
    \E c \in DOMAIN urlStorage :
        /\ Len(calls[c]) = 2
        /\ calls[c][1].referrer # calls[c][2].referrer
        /\ Len(urlStorage[c].clicks) = 2

\* C8: the code of a create answered 201 exists right after it, and a code
\* that exists keeps existing through every step that receives or answers a
\* request or advances the clock: only cleanupExpiredUrls ends it.
C8_ExistsUntilSwept ==
    [][ /\ (sent' # sent \/ pending' # pending \/ now' # now \/ hung' # hung)
           => \A c \in DOMAIN urlStorage : shortcodeExists(urlStorage', c)
        /\ (pending' # pending /\ last'.op = "create" /\ last'.status = 201)
           => shortcodeExists(urlStorage', IssuedCode(last')) ]_vars

\* A request about an entry that had expired was answered and the entry exists.
C8_Witness ==
    /\ last.op \in {"create", "redirect", "stats"}
    /\ last.known
    /\ last.req.shortcode \in DOMAIN urlStorage
    /\ shortcodeExists(urlStorage, last.req.shortcode)
    /\ last.at > ExpiryMs(last.req.shortcode)

\* C9: a create never replaces an entry: every entry stored before the
\* handler ran is stored unchanged after it, whether the handler used a custom
\* or a generated code, and a valid create whose custom code has an entry is
\* answered 409.
C9_CreateNeverReplaces ==
    [][ \A r \in CreateRequests :
          Answered(r) =>
              /\ \A c \in DOMAIN urlStorage :
                    c \in DOMAIN urlStorage' /\ urlStorage'[c] = urlStorage[c]
              /\ (PassesValidation(r) /\ Truthy(r.shortcode)
                    /\ r.shortcode \in DOMAIN urlStorage)
                 => last'.status = 409 ]_vars

\* A create for a code that already had a clicked entry of another URL, not
\* racing with any other, was answered 409 and the entry kept URL and click.
C9_Witness ==
    /\ LastCustomCreate
    /\ last.status = 409
    /\ ~last.raced
    /\ ~created[last.req.shortcode].raced
    /\ urlStorage[last.req.shortcode].originalUrl # last.req.url
    /\ Len(urlStorage[last.req.shortcode].clicks) = 1

\* C10: the code generated for a create without a shortcode has exactly 6
\* characters, all of them in [a-zA-Z0-9], and had no entry when it was
\* generated.  (Violated: nanoid draws from A-Za-z0-9_- .)
C10_GeneratedCodeAlphanumeric ==
    (last.op = "create" /\ last.status = 201 /\ ~Truthy(last.req.shortcode)) =>
        /\ Len(IssuedCode(last)) = 6
        /\ \A i \in DOMAIN IssuedCode(last) :
              IssuedCode(last)[i] \in Range(LowerLetters) \cup Range(UpperLetters) \cup Digits
        /\ ~last.known

\* C11: code generation is bounded: a create without a shortcode is never left
\* unanswered by a generator that loops for ever; when every code nanoid can
\* draw has an entry the request is answered 500.  (Violated: the do-while of
\* generateShortcode has no retry limit.)
C11_GenerationBounded == ~hung

\* The shortcode is a reserved word up to the case of its letters.
IsReservedWord(shortcode) ==
    \E w \in reservedWords :
        /\ Len(w) = Len(shortcode)
        /\ \A i \in DOMAIN w : LowerChar(shortcode[i]) = w[i]

\* validateShortcode was called with a reserved word in some mix of cases.
CalledWithReservedWord ==
    /\ invoked.fn = "validateShortcode"
    /\ IsReservedWord(invoked.shortcode)

\* C12 as stated: every reserved word, in any letter case, is rejected with
\* the reserved-word error, "api" included.  (Violated: "api" and "www" have
\* three characters and the length is tested first.)
C12_ReservedWordError ==
    CalledWithReservedWord =>
        (~returned.isValid /\ returned.error = ErrShortcodeReserved)

\* C12 as amended: every reserved word, in any letter case, is rejected; the
\* words of 4 to 10 characters (admin, shorturls, health, stats) with the
\* reserved-word error and the words of 3 characters (api, www) with the
\* length error.
C12_ReservedWordRejected ==
    CalledWithReservedWord =>
        /\ ~returned.isValid
        /\ Len(invoked.shortcode) >= 4 => returned.error = ErrShortcodeReserved
        /\ Len(invoked.shortcode) < 4 => returned.error = ErrShortcodeLength

\* "Admin" was rejected as a reserved word.
C12_Witness ==
    /\ invoked.fn = "validateShortcode"
    /\ invoked.shortcode = <<"A","d","m","i","n">>
    /\ ~returned.isValid
    /\ returned.error = ErrShortcodeReserved

\* createShortUrl was called with a body whose shortcode is empty or absent.
CalledCreateWithoutShortcode ==
    /\ invoked.fn = "createShortUrl"
    /\ ~Truthy(invoked.body.shortcode)

\* A create without a shortcode is refused only for its url or its validity,
\* never with 409, and its 201 stores the entry under a code nanoid drew that
\* had no entry.
CreateWithoutShortcodeGenerates ==
    CalledCreateWithoutShortcode =>
        /\ returned.status \in {201, 400}
        /\ returned.status = 400 =>
              \/ ~Truthy(invoked.body.url)
              \/ ~validateUrl(invoked.body.url).isValid
              \/ ~validateValidity(invoked.body.validity).isValid
        /\ returned.status = 201 =>
              /\ Tail(returned.shortLink) \in NanoidDraws
              /\ Tail(returned.shortLink) \notin DOMAIN invoked.store
              /\ Tail(returned.shortLink) \in DOMAIN returned.storage

\* C13 as stated: validateShortcode returns valid, without error, for an
\* empty or absent shortcode, and a create without a shortcode is never
\* refused for its shortcode and gets a generated code.  (Violated: the
\* validator answers "Shortcode cannot be empty".)
C13_EmptyShortcodeIsValid ==
    /\ (invoked.fn = "validateShortcode" /\ ~Truthy(invoked.shortcode))
          => (returned.isValid /\ returned.error = ErrNone)
    /\ CreateWithoutShortcodeGenerates

\* C13 as amended: validateShortcode rejects an empty or absent shortcode
\* with "Shortcode cannot be empty", but createShortUrl calls it only for a
\* shortcode that was sent, so a create without a shortcode is never refused
\* for its shortcode and its 201 carries a generated code.
C13_EmptyShortcodeSkipsValidator ==
    /\ (invoked.fn = "validateShortcode" /\ ~Truthy(invoked.shortcode))
          => (~returned.isValid /\ returned.error = ErrShortcodeEmpty)
    /\ CreateWithoutShortcodeGenerates

\* A create without a shortcode on a registry that holds the custom code and
\* one of nanoid's draws was answered 201.
C13_Witness ==
    /\ CalledCreateWithoutShortcode
    /\ Cardinality(DOMAIN invoked.store) = 2
    /\ returned.status = 201
    /\ Cardinality(DOMAIN returned.storage) = 3

\* C14: for a non-empty shortcode validateShortcode succeeds exactly when the
\* code has 4 to 10 characters, all of them in [a-zA-Z0-9], and is not a
\* reserved word in any letter case; a code of fewer than 4 or more than 10
\* characters fails with the length error, and "Abc123" succeeds.
C14_ShortcodeRule ==
    (invoked.fn = "validateShortcode" /\ Truthy(invoked.shortcode)) =>
        LET code == invoked.shortcode
        IN  /\ returned.isValid <=>
                  /\ Len(code) \in 4..10
                  /\ Range(code) \subseteq (Range(LowerLetters) \cup Range(UpperLetters) \cup Digits)
                  /\ ~IsReservedWord(code)
            /\ returned.isValid => returned.error = ErrNone
            /\ (Len(code) < 4 \/ Len(code) > 10) =>
                  (~returned.isValid /\ returned.error = ErrShortcodeLength)
            /\ code = Abc123 => returned.isValid
            /\ code = <<"a","b">> => returned.error = ErrShortcodeLength

\* A shortcode of exactly 10 alphanumeric characters was accepted.
C14_Witness ==
    /\ invoked.fn = "validateShortcode"
    /\ invoked.shortcode = TenChars
    /\ returned.isValid

DigitOrder == <<"0","1","2","3","4","5","6","7","8","9">>

\* The number a string of decimal digits denotes.
RECURSIVE DecimalValue(_)
DecimalValue(str) ==
    IF Len(str) = 0 THEN 0
    ELSE 10 * DecimalValue(SubSeq(str, 1, Len(str) - 1))
            + (CHOOSE d \in 0..9 : DigitOrder[d + 1] = str[Len(str)])

\* The integer a validity field parses as: <<n>>, or <<>> when it is not numeric.
ParsedInteger(validity) ==
    IF validity.t = "int" THEN <<validity.v>>
    ELSE IF validity.t = "string" /\ Len(validity.v) > 0 /\ Range(validity.v) \subseteq Digits
    THEN <<DecimalValue(validity.v)>>
    ELSE <<>>

\* C15 as stated: validateValidity returns valid with value 30 for an absent
\* or empty validity, and for any other input valid with the integer the
\* input parses as exactly when that integer is in 1..43200.  (Violated: the
\* empty string and the string "30" are refused, Number.isInteger is false
\* for every string.)
C15_ValidityParsed ==
    (invoked.fn = "validateValidity") =>
        LET validity == invoked.validity
            parsed   == ParsedInteger(validity)
        IN  IF validity.t = "undefined" \/ validity = StringValue(<<>>)
            THEN returned.isValid /\ returned.value = DefaultValidity
            ELSE /\ returned.isValid <=> (Len(parsed) = 1 /\ parsed[1] \in 1..43200)
                 /\ returned.isValid => returned.value = parsed[1]

\* C15 as amended: validateValidity returns valid with value 30 for an absent
\* (undefined or null) validity, and for any other input valid with the
\* input's value exactly when the input is a number with an integral value
\* in 1..43200; every string (the empty one and "30" too), fraction and other
\* non-number fails, 0 and 43201 fail, 1 and 43200 succeed.
C15_ValidityIsIntegerNumber ==
    (invoked.fn = "validateValidity") =>
        LET validity == invoked.validity
        IN  IF validity.t = "undefined"
            THEN returned.isValid /\ returned.value = 30
            ELSE /\ returned.isValid <=> (validity.t = "int" /\ validity.v \in 1..43200)
                 /\ returned.isValid => returned.value = validity.v
                 /\ validity \in {IntegerValue(0), IntegerValue(43201)} => ~returned.isValid
                 /\ validity \in {IntegerValue(1), IntegerValue(43200)} => returned.isValid

\* The validity 43200 was accepted with its value.
C15_Witness ==
    /\ invoked.fn = "validateValidity"
    /\ invoked.validity = IntegerValue(43200)
    /\ returned.isValid
    /\ returned.value = 43200

\* The string without the blanks before its first and after its last
\* character that is not a blank.
Stripped(str) ==
    LET inked == {i \in DOMAIN str : str[i] \notin {" ", "\t", "\n"}}
    IN  IF inked = {} THEN <<>>
        ELSE SubSeq(str, CHOOSE i \in inked : \A j \in inked : i <= j,
                         CHOOSE i \in inked : \A j \in inked : j <= i)

\* The string starts with the scheme http or https, in any letter case,
\* followed by a colon.
HasHttpScheme(str) ==
    \E k \in DOMAIN str :
        /\ str[k] = ":"
        /\ \A j \in 1..(k - 1) : str[j] # ":"
        /\ [j \in 1..(k - 1) |-> LowerChar(str[j])]
              \in { <<"h","t","t","p">>, <<"h","t","t","p","s">> }

\* C16: validateUrl fails for every input that is empty, that has a space
\* left after trimming, or whose scheme is not http or https; when it
\* succeeds the normalized value is the input without its leading and
\* trailing blanks, letter for letter.
C16_UrlRule ==
    (invoked.fn = "validateUrl") =>
        LET url == invoked.url
        IN  /\ (\/ Len(url) = 0
                \/ " " \in Range(Stripped(url))
                \/ ~HasHttpScheme(Stripped(url))) => ~returned.isValid
            /\ returned.isValid => returned.normalizedUrl = Stripped(url)
            /\ url = <<"f","t","p",":","/","/","x",".","c","o","m">> => ~returned.isValid
            /\ url = <<"h","t","t","p","s",":","/","/","e","x"," ","a","m","p","l","e",".","c","o","m">>
                  => ~returned.isValid

\* A URL with capitals and blanks around it was accepted and came back
\* without the blanks, capitals kept.
C16_Witness ==
    /\ invoked.fn = "validateUrl"
    /\ invoked.url = <<" ","H","T","T","P",":","/","/","A",".","b"," ">>
    /\ returned.isValid
    /\ returned.normalizedUrl = <<"H","T","T","P",":","/","/","A",".","b">>

\* The step is a run of cleanupExpiredUrls.
Swept ==
    /\ last'.op = "sweep"
    /\ sent' = sent
    /\ pending' = pending
    /\ now' = now
    /\ (last' # last \/ urlStorage' # urlStorage)

\* C17: cleanupExpiredUrls removes exactly the entries with now > expiresAt,
\* which are the entries redirectToUrl would answer 410 at that instant,
\* returns their number, and leaves every other entry as it was.
C17_SweepRemovesExactlyExpired ==
    [][ Swept =>
          LET expired == {c \in DOMAIN urlStorage : now > ExpiryMs(c)}
          IN  /\ DOMAIN urlStorage' = DOMAIN urlStorage \ expired
              /\ last'.count = Cardinality(expired)
              /\ \A c \in DOMAIN urlStorage' : urlStorage'[c] = urlStorage[c]
              /\ \A c \in DOMAIN urlStorage :
                    (c \in expired) <=>
                        (redirectToUrl(urlStorage, c, NoClient, now, now).status = 410) ]_vars

\* A run of cleanupExpiredUrls removed one entry and kept another, which had
\* been clicked.
C17_Witness ==
    /\ last.op = "sweep"
    /\ last.count = 1
    /\ \E c \in DOMAIN urlStorage : Len(urlStorage[c].clicks) = 1

\* The click of a redirect is recorded on a registry that no longer holds the
\* entry the lookup had found.
EntryVanishedBeforeClick ==
    /\ invoked.fn = "redirectAfterLookup"
    /\ invoked.urlEntry.shortcode \notin DOMAIN invoked.store

\* C18: when the entry has been removed between the lookup of redirectToUrl
\* and its recordClick, the request is still answered 302 to the entry's
\* originalUrl, and recordClick leaves the registry as it found it: the entry
\* is not made anew.
C18_VanishedEntryStillRedirects ==
    EntryVanishedBeforeClick =>
        /\ returned.status = 302
        /\ returned.location = invoked.urlEntry.originalUrl
        /\ returned.storage = invoked.store
        /\ invoked.urlEntry.shortcode \notin DOMAIN returned.storage

\* The click was to be recorded on a registry that holds two other entries.
C18_Witness ==
    /\ EntryVanishedBeforeClick
    /\ Cardinality(DOMAIN invoked.store) = 2
    /\ returned.status = 302

\* The status the handler of request r gives on the current registry when
\* every log call succeeds.
StatusWithWorkingSink(r) ==
    IF r.kind = "create"
    THEN (IF createChecks(urlStorage, r) # 0 THEN createChecks(urlStorage, r) ELSE 201)
    ELSE IF r.kind = "redirect"
    THEN redirectToUrl(urlStorage, r.shortcode, r.client, now, now).status
    ELSE getUrlStats(urlStorage, r.shortcode).status

\* C19: a log call that throws changes nothing of a request's outcome: the
\* status is the one the handler gives with a working sink, an entry is
\* stored only by a request answered 201 and a click recorded only by a
\* request answered 302.  (Violated: the log calls are inside the handlers'
\* try blocks, so a throw after storeUrl or recordClick ends in 500.)
C19_LogFailureChangesNothing ==
    [][ \A r \in Requests :
          Answered(r) =>
              /\ last'.status = StatusWithWorkingSink(r)
              /\ (DOMAIN urlStorage' # DOMAIN urlStorage) => last'.status = 201
              /\ (\E c \in DOMAIN urlStorage :
                      Len(urlStorage'[c].clicks) > Len(urlStorage[c].clicks))
                    => last'.status = 302 ]_vars

\* C20: for every entry of the registry expiresAt is createdAt plus exactly
\* the validated validity of the create request, in minutes (30 when the
\* request had none).  (Violated: expiresAt is computed from Date.now() and
\* createdAt from a later new Date(), which may read the next millisecond.)
C20_ExpiryIsCreationPlusValidity ==
    \A c \in DOMAIN urlStorage :
        c \in DOMAIN created =>
            DateParse(urlStorage[c].expiresAt)
                = DateParse(urlStorage[c].createdAt)
                    + validateValidity(created[c].body.validity).value * 60 * 1000

\* C22: from the step that stores an entry to the step that removes it, its
\* shortcode, originalUrl, createdAt and expiresAt stay what they were, and its
\* clicks either stay what they were or get one element at the end: the
\* clicks before a step are always a prefix of the clicks after it.
C22_OnlyClicksGrow ==
    [][ \A c \in DOMAIN urlStorage \cap DOMAIN urlStorage' :
          LET old == urlStorage[c]
              new == urlStorage'[c]
          IN  /\ new.shortcode = old.shortcode
              /\ new.originalUrl = old.originalUrl
              /\ new.createdAt = old.createdAt
              /\ new.expiresAt = old.expiresAt
              /\ \/ new.clicks = old.clicks
                 \/ /\ Len(new.clicks) = Len(old.clicks) + 1
                    /\ SubSeq(new.clicks, 1, Len(old.clicks)) = old.clicks ]_vars

\* An entry holds two clicks of different clients, the second one appended by
\* the redirect answered last.
C22_Witness ==
    /\ last.op = "redirect"
    /\ last.status = 302
    /\ last.req.shortcode \in DOMAIN urlStorage
    /\ Len(urlStorage[last.req.shortcode].clicks) = 2
    /\ urlStorage[last.req.shortcode].clicks[1].ip # urlStorage[last.req.shortcode].clicks[2].ip

\* The entries of the codes other than shortcode are the same in both registries.
SameButFor(before, after, shortcode) ==
    /\ DOMAIN after = DOMAIN before
    /\ \A b \in DOMAIN before \ {shortcode} : after[b] = before[b]

\* C23: a recordClick call for one code leaves the entry of every other code,
\* clicks included, as it was, and two calls for different codes give the
\* same registry in either order.
C23_ClickTouchesOneCode ==
    (invoked.fn = "recordClick") =>
        /\ SameButFor(invoked.store, returned.between, invoked.first.shortcode)
        /\ SameButFor(returned.between, returned.storage, invoked.second.shortcode)
        /\ invoked.first.shortcode # invoked.second.shortcode =>
              returned.storage =
                  recordClick(recordClick(invoked.store, invoked.second.shortcode,
                                          invoked.second.clickData),
                              invoked.first.shortcode, invoked.first.clickData)

\* Clicks were recorded for two different codes of a registry with three
\* entries: each of the two has its own click and the third has none.
C23_Witness ==
    /\ invoked.fn = "recordClick"
    /\ invoked.first.shortcode # invoked.second.shortcode
    /\ invoked.first.clickData # invoked.second.clickData
    /\ Cardinality(DOMAIN invoked.store) = 3
    /\ returned.storage[invoked.first.shortcode].clicks = <<invoked.first.clickData>>
    /\ returned.storage[invoked.second.shortcode].clicks = <<invoked.second.clickData>>
    /\ \E c \in DOMAIN returned.storage : returned.storage[c].clicks = <<>>

\* The registry with ip as the source address of every recorded click.
WithSourceIp(store, ip) ==
    [c \in DOMAIN store |->
        [store[c] EXCEPT !.clicks = [i \in DOMAIN store[c].clicks |->
                                        [store[c].clicks[i] EXCEPT !.ip = ip]]]]

\* C24: a statistics request leaves urlStorage as it was, and its response
\* (status and statistics) is the one the same request gets from a registry
\* that differs from urlStorage only in the source addresses of the clicks.
C24_StatsReadOnlyAndHideIp ==
    [][ \A r \in StatsRequests :
          Answered(r) =>
              /\ urlStorage' = urlStorage
              /\ \A ip \in {IpPublic, StripIpPrefix(IpLoopback), <<>>} :
                    LET other == getUrlStats(WithSourceIp(urlStorage, ip), r.shortcode)
                    IN  /\ other.status = last'.status
                        /\ other.stats = last'.stats ]_vars

\* Statistics were answered for an entry that holds a click recorded from the
\* public address, and they list that click.
C24_Witness ==
    /\ last.op = "stats"
    /\ last.status = 200
    /\ last.req.shortcode \in DOMAIN urlStorage
    /\ Len(last.stats[1].clicks) = 1
    /\ Len(urlStorage[last.req.shortcode].clicks) = 1
    /\ urlStorage[last.req.shortcode].clicks[1].ip = IpPublic
    /\ last.stats[1].clicks[1].location = GeoLocation(IpPublic)

\* C25: a step that answers a POST /shorturls with 400 or 409, or a GET with
\* 404, leaves urlStorage as it was; a step that answers a POST with 201 adds
\* one entry, under the code of the short link and without clicks, and leaves
\* every other entry as it was.
C25_RefusalsChangeNothing ==
    [][ \A r \in Requests :
          Answered(r) =>
              /\ (r.kind = "create" /\ last'.status \in {400, 409}) => urlStorage' = urlStorage
              /\ (r.kind \in {"redirect", "stats"} /\ last'.status = 404)
                    => urlStorage' = urlStorage
              /\ (r.kind = "create" /\ last'.status = 201) =>
                    LET c == IssuedCode(last')
                    IN  /\ c \notin DOMAIN urlStorage
                        /\ DOMAIN urlStorage' = DOMAIN urlStorage \cup {c}
                        /\ urlStorage'[c].clicks = <<>>
                        /\ \A b \in DOMAIN urlStorage : urlStorage'[b] = urlStorage[b] ]_vars

\* A create was answered 201 while the registry held another entry with a
\* click; the registry now has both, the new one without clicks.
C25_Witness ==
    /\ last.op = "create"
    /\ last.status = 201
    /\ Cardinality(DOMAIN urlStorage) = 2
    /\ urlStorage[IssuedCode(last)].clicks = <<>>
    /\ \E b \in DOMAIN urlStorage : Len(urlStorage[b].clicks) = 1

\* C26: a step that answers GET /:shortcode with 302 appends exactly one click
\* to the entry of that code and changes nothing else, and a step that answers
\* it with 404, 410 or 500 leaves urlStorage as it was.  (Violated with a
\* failing logging sink: logUrlAccessed throws after recordClick, the request
\* is answered 500 and the click stays recorded.)
C26_ClickExactlyWhenRedirected ==
    [][ \A r \in RedirectRequests :
          Answered(r) =>
              /\ last'.status = 302 =>
                    /\ r.shortcode \in DOMAIN urlStorage
                    /\ \E click \in {urlStorage'[r.shortcode].clicks[
                                        Len(urlStorage'[r.shortcode].clicks)]} :
                          urlStorage' = [urlStorage EXCEPT
                                            ![r.shortcode].clicks = Append(@, click)]
              /\ last'.status \in {404, 410, 500} => urlStorage' = urlStorage ]_vars

\* C27: no stored shortcode is a reserved word in any letter case, whether the
\* client supplied it or generateShortcode produced it.  (Violated: a code
\* that nanoid draws is stored without the reserved-word test.)
C27_NoReservedCodeStored ==
    \A c \in DOMAIN urlStorage : ~IsReservedWord(c)

\* C28: every stored originalUrl is the normalized URL of validateUrl: it has
\* no blank at either end, and validateUrl accepts it and returns it itself as
\* normalizedUrl.  (Violated: createShortUrl stores the url of the request
\* body, not the normalizedUrl the validator returned.)
C28_StoredUrlIsNormalized ==
    \A c \in DOMAIN urlStorage :
        LET originalUrl == urlStorage[c].originalUrl
        IN  /\ trim(originalUrl) = originalUrl
            /\ validateUrl(originalUrl).isValid
            /\ validateUrl(originalUrl).normalizedUrl = originalUrl

\* C29: a valid create whose custom code has an entry that has expired is
\* answered 409 and leaves urlStorage as it was; an entry leaves urlStorage
\* only in a step of cleanupExpiredUrls taken after its expiry; and a create
\* with a custom code is answered 201 only when the code has no entry, the
\* entry it stores having no clicks and statistics that count none.
C29_ExpiredEntryStillCollides ==
    [][ /\ \A r \in CreateRequests :
              (/\ Answered(r)
               /\ PassesValidation(r)
               /\ Truthy(r.shortcode)
               /\ r.shortcode \in DOMAIN urlStorage
               /\ now > ExpiryMs(r.shortcode))
              => (last'.status = 409 /\ urlStorage' = urlStorage)
        /\ \A c \in DOMAIN urlStorage \ DOMAIN urlStorage' :
              /\ last'.op = "sweep"
              /\ pending' = pending
              /\ now > ExpiryMs(c)
        /\ \A r \in CreateRequests :
              (Answered(r) /\ Truthy(r.shortcode) /\ last'.status = 201) =>
                  /\ r.shortcode \notin DOMAIN urlStorage
                  /\ urlStorage'[r.shortcode].clicks = <<>>
                  /\ getUrlStats(urlStorage', r.shortcode).stats[1].totalClicks = 0
                  /\ getUrlStats(urlStorage', r.shortcode).stats[1].clicks = <<>> ]_vars

\* A create for a custom code was answered 409 after the entry of the code,
\* which holds a click, had expired.
C29_Witness ==
    /\ LastCustomCreate
    /\ last.status = 409
    /\ last.req.shortcode \in DOMAIN urlStorage
    /\ last.at > ExpiryMs(last.req.shortcode)
    /\ Len(urlStorage[last.req.shortcode].clicks) = 1

\* C21: whatever rows were added, removed, edited or cleared, the form has
\* between 1 and 5 rows, and the array that a submission hands to
\* createMultipleShortUrls has at most 5 entries.
C21_RowsBetweenOneAndFive ==
    /\ Len(urlEntries) >= 1
    /\ Len(urlEntries) <= MaxUrlEntries
    /\ Len(batch.urlDataArray) <= MaxUrlEntries

\* The form has five rows and all five have been submitted.
C21_Witness ==
    /\ Len(urlEntries) = MaxUrlEntries
    /\ loading
    /\ Len(batch.urlDataArray) = MaxUrlEntries

====
